---- MODULE Spec2Model ----
(***************************************************************************)
(* Model of weightedRandomSample(n, weights) from the dollar-unit sampling *)
(* notebook: a weighted random sample of size n drawn with replacement by  *)
(* searching the normalised cumulative weights for each uniform draw.      *)
(*                                                                         *)
(* Numbers.  Weights are integers (the notebook passes np.arange(vals)+1), *)
(* so the float sums are exact.  A float is a record: cls is "num" for the *)
(* exact ratio num/dn (dn > 0), or "nan", "inf", "-inf" for the IEEE       *)
(* results of a division by zero.  A uniform draw is k/den for an integer  *)
(* k in 0..den-1, den being the resolution of the generator.  Rounding of  *)
(* quotients to the nearest double is outside the model.                   *)
(***************************************************************************)
EXTENDS Integers, Sequences, FiniteSets

\* ---------------------------------------------------------------- bounds
MaxLen == 3         \* longest weight array of the general inputs
MaxW == 2           \* largest weight of the general inputs
MaxNeg == 1         \* most negative weight of the general inputs is -MaxNeg
MaxDraws == 2       \* largest n of the general inputs
Den == 4            \* generator resolution of the general inputs
ScenarioDen == 20   \* generator resolution of the worked scenario

WeightVals == (0 - MaxNeg)..MaxW

\* The worked scenario: weights 1,2,3,4 and three draws.
ScenarioWeights == <<1, 2, 3, 4>>
ScenarioPct == <<5, 65, 95>>        \* the draws 0.05, 0.65, 0.95 in hundredths

VARIABLES n, weights, den, pc, wc, theSam, consumed, stdout, ret, callerWeights

vars == <<n, weights, den, pc, wc, theSam, consumed, stdout, ret, callerWeights>>

\* ---------------------------------------------------------------- floats
Num(a, b) == [cls |-> "num", num |-> a, dn |-> b]
NaN == [cls |-> "nan", num |-> 0, dn |-> 1]
Inf == [cls |-> "inf", num |-> 0, dn |-> 1]
NegInf == [cls |-> "-inf", num |-> 0, dn |-> 1]

\* float / float of two integer-valued floats a / b, b >= 0
TrueDivide(a, b) ==
    IF b # 0 THEN Num(a, b)
    ELSE IF a = 0 THEN NaN
    ELSE IF a > 0 THEN Inf
    ELSE NegInf

\* IEEE a < b
FloatLess(a, b) ==
    IF a.cls = "nan" \/ b.cls = "nan" THEN FALSE
    ELSE IF a.cls = "inf" \/ b.cls = "-inf" THEN FALSE
    ELSE IF a.cls = "-inf" \/ b.cls = "inf" THEN TRUE
    ELSE a.num * b.dn < b.num * a.dn

\* The order searchsorted uses (side='left'): a < b, NaN sorted last.
SortLess(a, b) ==
    FloatLess(a, b) \/ (b.cls = "nan" /\ a.cls # "nan")

\* ---------------------------------------------------------------- numpy
RECURSIVE SumTo(_, _)
SumTo(w, k) == IF k = 0 THEN 0 ELSE SumTo(w, k - 1) + w[k]

cumsum_exclusive(w) == [k \in 1..Len(w) |-> SumTo(w, k - 1)]

\* np.cumsum(weights, dtype=float): a new array of running sums
cumsum(w) == [k \in 1..Len(w) |-> SumTo(w, k)]

sum_plus_one(w) == SumTo(w, Len(w)) + 1

\* np.sum(weights, dtype=float)
sum(w) == SumTo(w, Len(w))

\* any(weights < 0)
AnyNegative(w) == \E k \in 1..Len(w) : w[k] < 0

\* wc = np.cumsum(weights, dtype=float)/np.sum(weights, dtype=float)
Normalize(w) == [k \in 1..Len(w) |-> TrueDivide(cumsum(w)[k], sum(w))]

random_sample_closed(k, d) == [1..k -> 0..d]

\* np.random.random_sample((k,)), k >= 0: k values of [0, 1), as numerators
random_sample(k, d) == [1..k -> 0..(d - 1)]

\* Binary search of the sorted array a for key over the 0-based range
\* lo..hi-1: the first position whose entry is not SortLess than key.
RECURSIVE binsearch_left(_, _, _, _)
binsearch_left(a, key, lo, hi) ==
    IF lo >= hi THEN lo
    ELSE LET mid == lo + ((hi - lo) \div 2)
         IN  IF SortLess(a[mid + 1], key)
             THEN binsearch_left(a, key, mid + 1, hi)
             ELSE binsearch_left(a, key, lo, mid)

RECURSIVE binsearch_right(_, _, _, _)
binsearch_right(a, key, lo, hi) ==
    IF lo >= hi THEN lo
    ELSE LET mid == lo + ((hi - lo) \div 2)
         IN  IF SortLess(key, a[mid + 1])
             THEN binsearch_right(a, key, lo, mid)
             ELSE binsearch_right(a, key, mid + 1, hi)

searchsorted_right(a, v, d) ==
    [i \in 1..Len(v) |-> binsearch_right(a, Num(v[i], d), 0, Len(a))]

\* np.array(wc).searchsorted(theSam): 0-based insertion points, side='left'
searchsorted(a, v, d) ==
    [i \in 1..Len(v) |-> binsearch_left(a, Num(v[i], d), 0, Len(a))]

\* ---------------------------------------------------------------- results
NoRet == [kind |-> "none", exc |-> "", origin |-> "", indices |-> <<>>, uniforms |-> <<>>]
RetNaN == [kind |-> "nan", exc |-> "", origin |-> "", indices |-> <<>>, uniforms |-> <<>>]
Raised(e, o) == [kind |-> "raise", exc |-> e, origin |-> o, indices |-> <<>>, uniforms |-> <<>>]
RetTuple(ix, u) == [kind |-> "tuple", exc |-> "", origin |-> "", indices |-> ix, uniforms |-> u]

\* ---------------------------------------------------------------- machine
GeneralInputs ==
    /\ n \in (0 - 1)..MaxDraws
    /\ weights \in UNION {[1..len -> WeightVals] : len \in 1..MaxLen}
    /\ den = Den

ScenarioInputs ==
    /\ n = Len(ScenarioPct)
    /\ weights = ScenarioWeights
    /\ den = ScenarioDen

Init ==
    /\ GeneralInputs \/ ScenarioInputs
    /\ callerWeights = weights
    /\ pc = "call"
    /\ wc = <<>>
    /\ theSam = <<>>
    /\ consumed = 0
    /\ stdout = <<>>
    /\ ret = NoRet

\* if any(weights < 0): print ...; return float('NaN')
NegativeWeight ==
    /\ pc = "call"
    /\ AnyNegative(weights)
    /\ stdout' = Append(stdout, "negative weight in weightedRandomSample")
    /\ ret' = RetNaN
    /\ pc' = "done"
    /\ UNCHANGED <<n, weights, den, wc, theSam, consumed, callerWeights>>

\* else: wc = np.cumsum(...)/np.sum(...)
ComputeWc ==
    /\ pc = "call"
    /\ ~AnyNegative(weights)
    /\ wc' = Normalize(weights)
    /\ pc' = "wc"
    /\ UNCHANGED <<n, weights, den, theSam, consumed, stdout, ret, callerWeights>>

\* theSam = np.random.random_sample((n,)), n >= 0
DrawSample ==
    /\ pc = "wc"
    /\ n >= 0
    /\ \E s \in random_sample(n, den) :
          /\ theSam' = s
          /\ consumed' = consumed + Len(s)
    /\ pc' = "sam"
    /\ UNCHANGED <<n, weights, den, wc, stdout, ret, callerWeights>>

\* np.random.random_sample((n,)), n < 0: numpy raises ValueError
\* ("negative dimensions are not allowed") and draws nothing
DrawSampleRaises ==
    /\ pc = "wc"
    /\ n < 0
    /\ ret' = Raised("ValueError", "numpy.random")
    /\ pc' = "done"
    /\ UNCHANGED <<n, weights, den, wc, theSam, consumed, stdout, callerWeights>>

\* return np.array(wc).searchsorted(theSam), theSam
SearchAndReturn ==
    /\ pc = "sam"
    /\ ret' = RetTuple(searchsorted(wc, theSam, den), theSam)
    /\ pc' = "done"
    /\ UNCHANGED <<n, weights, den, wc, theSam, consumed, stdout, callerWeights>>

Next ==
    \/ NegativeWeight
    \/ ComputeWc
    \/ DrawSample
    \/ DrawSampleRaises
    \/ SearchAndReturn

Spec == Init /\ [][Next]_vars

\* ---------------------------------------------------------------- claims
N == Len(weights)
Done == pc = "done"
AllZero == \A k \in 1..N : weights[k] = 0
\* n >= 0, N >= 1, every weight >= 0, at least one weight > 0
ValidInput ==
    /\ n >= 0
    /\ N >= 1
    /\ \A k \in 1..N : weights[k] >= 0
    /\ \E k \in 1..N : weights[k] > 0
Total == SumTo(weights, N)
\* the exact cumulative entry wc[k] (0-based k) is Cum(k) / Total
Cum(k) == SumTo(weights, k + 1)
\* wc[k] >= t for the draw t = u/den, in exact arithmetic
CumAtLeast(k, u) == Cum(k) * den >= u * Total
\* t = u/den lies in the interval of index j: wc[j-1] < t <= wc[j], and
\* 0 <= t <= wc[0] for j = 0
InInterval(j, u) ==
    /\ (j = 0 \/ Cum(j - 1) * den < u * Total)
    /\ u * Total <= Cum(j) * den
IsScenario ==
    /\ weights = ScenarioWeights
    /\ Len(ret.uniforms) = Len(ScenarioPct)
    /\ \A i \in 1..Len(ScenarioPct) : ret.uniforms[i] * 100 = ScenarioPct[i] * den

\* C1: a call with a negative weight ends in an InvalidWeight error: it
\* returns no value (no NaN, no pair) and produces no sample.
C1_NegativeWeightRaises ==
    (Done /\ AnyNegative(weights)) =>
        /\ ret.kind = "raise"
        /\ ret.exc = "InvalidWeight"
        /\ consumed = 0

\* C2: a call with n > 0 and all weights zero ends in a
\* DegenerateDistribution error instead of returning indices computed from
\* an undefined cumulative sequence.
C2_AllZeroRaises ==
    (Done /\ n > 0 /\ AllZero) =>
        /\ ret.kind = "raise"
        /\ ret.exc = "DegenerateDistribution"

\* C3: a call with n < 0 ends in an InvalidArgument error raised by the
\* sampler itself, not by the random-number subsystem (stated here for the
\* calls whose weights are all non-negative, where no other error applies).
C3_NegativeNRaises ==
    (Done /\ n < 0 /\ ~AnyNegative(weights)) =>
        /\ ret.kind = "raise"
        /\ ret.exc = "InvalidArgument"
        /\ ret.origin = "weightedRandomSample"

\* C4: each error condition (n < 0, a negative weight, all weights zero with
\* n > 0) is detected before any random value is consumed, and no call that
\* consumed a random value ends without a sample.
C4_ErrorsBeforeDraws ==
    /\ consumed > 0 =>
          ~(n < 0 \/ AnyNegative(weights) \/ (AllZero /\ n > 0))
    /\ (Done /\ consumed > 0) => ret.kind = "tuple"

C6_ZeroWeightNeverSelected ==
    (Done /\ ValidInput /\ ret.kind = "tuple") =>
        \A i \in 1..Len(ret.indices) :
            /\ ret.indices[i] + 1 \in 1..N
            /\ weights[ret.indices[i] + 1] # 0

C8_Original ==
    (Done /\ IsScenario) => ret.indices = <<0, 2, 3>>

\* C8 as amended: weights 1,2,3,4 and the draws 0.05, 0.65, 0.95 return the
\* indices 0, 3, 3 together with those draws.
C8_Scenario ==
    (Done /\ IsScenario) =>
        /\ ret.kind = "tuple"
        /\ ret.indices = <<0, 3, 3>>
        /\ ret.uniforms = theSam
        /\ wc = <<Num(1, 10), Num(3, 10), Num(6, 10), Num(10, 10)>>

\* C8 witness: the scenario call returned.
C8_Witness ==
    Done /\ IsScenario /\ ret.kind = "tuple"

\* C9: for a valid weight sequence and n >= 0 the call returns two sequences
\* of length n, every uniform in [0, 1); n = 0 returns two empty sequences;
\* the weights passed in are not modified.
C9_ReturnsTwoSequences ==
    (Done /\ ValidInput) =>
        /\ ret.kind = "tuple"
        /\ Len(ret.indices) = n
        /\ Len(ret.uniforms) = n
        /\ \A i \in 1..n : 0 <= ret.uniforms[i] /\ ret.uniforms[i] < den
        /\ (n = 0 => ret.indices = <<>> /\ ret.uniforms = <<>>)
        /\ weights = callerWeights

\* C9 witness: a valid call with n = 0 returned.
C9_Witness ==
    Done /\ ValidInput /\ n = 0 /\ ret.kind = "tuple"

====
